---- MODULE Spec2Model ----
(***************************************************************************)
(* Chimera error taxonomy of rust-hyperscan (hyperscan/src/chimera/        *)
(* errors.rs): translation of raw ch_error_t status codes into Error       *)
(* values (AsResult::ok, AsCompileResult::ok_or), and the life cycle of    *)
(* the foreign ch_compile_error_t record behind the owning CompileError    *)
(* handle (accessors, equality, drop).                                     *)
(***************************************************************************)
EXTENDS Integers, Sequences, FiniteSets, TLC

(***************************************************************************)
(* Raw status codes of the engine (the ffi constants errors.rs names).     *)
(***************************************************************************)
CH_SUCCESS == 0
CH_INVALID == -1
CH_NOMEM == -2
CH_SCAN_TERMINATED == -3
CH_COMPILER_ERROR == -4
CH_DB_VERSION_ERROR == -5
CH_DB_PLATFORM_ERROR == -6
CH_DB_MODE_ERROR == -7
CH_BAD_ALIGN == -8
CH_BAD_ALLOC == -9
CH_SCRATCH_IN_USE == -10
CH_FAIL_INTERNAL == -32

(***************************************************************************)
(* Bounds of the model.                                                    *)
(***************************************************************************)
\* number of diagnostic records the engine allocates in one run
MaxRecords == 2
\* the contiguous sample of raw codes is -CodeSpan .. 1
CodeSpan == 11

\* ch_error_t and the record's expression field are C ints (32 bits)
INT_MAX == 2147483647
INT_MIN == -INT_MAX - 1

\* the null diagnostic pointer; records live at addresses 1..MaxRecords
NULL == 0
Ptrs == 1..MaxRecords

\* raw status codes fed to the translation: every named code, its
\* neighbours, a positive code, and the extremes of the C int
Codes ==
    (-CodeSpan..1)
        \cup {CH_FAIL_INTERNAL - 1, CH_FAIL_INTERNAL, CH_FAIL_INTERNAL + 1}
        \cup {INT_MIN, INT_MAX}

\* the expression-index sample is -ExprSpan .. ExprSpan and the extremes
ExprSpan == 2

\* contents the engine writes into a diagnostic record: the message, and the
\* expression index (-1 when the engine cannot tell the expression)
Messages == {"syntax error", "unsupported"}
Expressions == {-1, 0}
ExpressionSample == (-ExprSpan..ExprSpan) \cup {INT_MIN, INT_MAX}

\* statuses the foreign release call reports: success, a named failure, a
\* code errors.rs does not name
FreeStatuses == {CH_SUCCESS, CH_INVALID, CH_FAIL_INTERNAL + 1}

VARIABLES
    heap,       \* foreign ch_compile_error_t records, by address
    handles,    \* CompileError values created so far: pointer and liveness
    result,     \* value returned by the last call
    last,       \* the last call: operation, arguments, pointer it read
    prev,       \* an earlier translation the caller kept: code and result
    phase,      \* "running", "unwinding" (after a panic), "aborted"
    uaf         \* a released record was read or released again

vars == <<heap, handles, result, last, prev, phase, uaf>>

(***************************************************************************)
(* Values                                                                  *)
(***************************************************************************)
\* A returned value.  num is an integer payload; for a usize payload (64 bits)
\* num is its low 32-bit word and hi its high word, each written as the C int
\* with the same bits.
Value(tag, variant, num, handle, text) ==
    [tag |-> tag, variant |-> variant, num |-> num, hi |-> 0,
     handle |-> handle, text |-> text]

Ok == Value("Ok", "", 0, 0, "")
Err(e) == Value("Err", e.variant, e.num, e.handle, "")
Unit == Value("Unit", "", 0, 0, "")
Panic(msg) == Value("Panic", "", 0, 0, msg)

\* enum Error
Error(variant, num, handle) == [variant |-> variant, num |-> num, handle |-> handle]
Invalid == Error("Invalid", 0, 0)
NoMem == Error("NoMem", 0, 0)
ScanTerminated == Error("ScanTerminated", 0, 0)
CompileErrorV(h) == Error("CompileError", 0, h)
CompilerError == Error("CompilerError", 0, 0)
DbVersionError == Error("DbVersionError", 0, 0)
DbPlatformError == Error("DbPlatformError", 0, 0)
DbModeError == Error("DbModeError", 0, 0)
BadAlign == Error("BadAlign", 0, 0)
BadAlloc == Error("BadAlloc", 0, 0)
ScratchInUse == Error("ScratchInUse", 0, 0)
FailInternal == Error("FailInternal", 0, 0)
Code(c) == Error("Code", c, 0)

\* ErrorFrom with the arms of two database errors exchanged
ErrorFrom_SwappedArms(err) ==
    IF err = CH_INVALID THEN Invalid
    ELSE IF err = CH_NOMEM THEN NoMem
    ELSE IF err = CH_SCAN_TERMINATED THEN ScanTerminated
    ELSE IF err = CH_DB_VERSION_ERROR THEN DbVersionError
    ELSE IF err = CH_DB_PLATFORM_ERROR THEN DbModeError
    ELSE IF err = CH_DB_MODE_ERROR THEN DbPlatformError
    ELSE IF err = CH_BAD_ALIGN THEN BadAlign
    ELSE IF err = CH_BAD_ALLOC THEN BadAlloc
    ELSE IF err = CH_SCRATCH_IN_USE THEN ScratchInUse
    ELSE IF err = CH_FAIL_INTERNAL THEN FailInternal
    ELSE Code(err)

\* ErrorFrom with the scan-terminated arm left out
ErrorFrom_NoScanTerminated(err) ==
    IF err = CH_INVALID THEN Invalid
    ELSE IF err = CH_NOMEM THEN NoMem
    ELSE IF err = CH_DB_VERSION_ERROR THEN DbVersionError
    ELSE IF err = CH_DB_PLATFORM_ERROR THEN DbPlatformError
    ELSE IF err = CH_DB_MODE_ERROR THEN DbModeError
    ELSE IF err = CH_BAD_ALIGN THEN BadAlign
    ELSE IF err = CH_BAD_ALLOC THEN BadAlloc
    ELSE IF err = CH_SCRATCH_IN_USE THEN ScratchInUse
    ELSE IF err = CH_FAIL_INTERNAL THEN FailInternal
    ELSE Code(err)

\* ErrorFrom with the arm of CH_BAD_ALLOC a copy of the arm above it
ErrorFrom_CopiedArm(err) ==
    IF err = CH_INVALID THEN Invalid
    ELSE IF err = CH_NOMEM THEN NoMem
    ELSE IF err = CH_SCAN_TERMINATED THEN ScanTerminated
    ELSE IF err = CH_DB_VERSION_ERROR THEN DbVersionError
    ELSE IF err = CH_DB_PLATFORM_ERROR THEN DbPlatformError
    ELSE IF err = CH_DB_MODE_ERROR THEN DbModeError
    ELSE IF err = CH_BAD_ALIGN THEN BadAlign
    ELSE IF err = CH_BAD_ALLOC THEN BadAlign
    ELSE IF err = CH_SCRATCH_IN_USE THEN ScratchInUse
    ELSE IF err = CH_FAIL_INTERNAL THEN FailInternal
    ELSE Code(err)

\* impl From<ffi::ch_error_t> for Error: the match, arm by arm
ErrorFrom(err) ==
    IF err = CH_INVALID THEN Invalid
    ELSE IF err = CH_NOMEM THEN NoMem
    ELSE IF err = CH_SCAN_TERMINATED THEN ScanTerminated
    ELSE IF err = CH_DB_VERSION_ERROR THEN DbVersionError
    ELSE IF err = CH_DB_PLATFORM_ERROR THEN DbPlatformError
    ELSE IF err = CH_DB_MODE_ERROR THEN DbModeError
    ELSE IF err = CH_BAD_ALIGN THEN BadAlign
    ELSE IF err = CH_BAD_ALLOC THEN BadAlloc
    ELSE IF err = CH_SCRATCH_IN_USE THEN ScratchInUse
    ELSE IF err = CH_FAIL_INTERNAL THEN FailInternal
    ELSE Code(err)

\* impl AsResult for ffi::ch_error_t: fn ok
AsResult_ok(c) ==
    IF c = CH_SUCCESS THEN Ok ELSE Err(ErrorFrom(c))

\* expect that drops the status instead of unwrapping it
AsResult_expect_Ignored(c, msg) == Unit

\* AsResult::expect: self.ok().expect(msg) panics on Err
AsResult_expect(c, msg) ==
    IF AsResult_ok(c).tag = "Ok" THEN Unit ELSE Panic(msg)

\* ok_or without the null check
AsCompileResult_ok_or_NoNullCheck(c, err, h) ==
    IF c = CH_SUCCESS THEN [value |-> Ok, owns |-> FALSE]
    ELSE IF c = CH_COMPILER_ERROR
        THEN [value |-> Err(CompileErrorV(h)), owns |-> TRUE]
    ELSE [value |-> Err(ErrorFrom(c)), owns |-> FALSE]

\* ok_or that wraps the pointer before it looks at the status
AsCompileResult_ok_or_EagerWrap(c, err, h) ==
    IF c = CH_SUCCESS THEN [value |-> Ok, owns |-> err # NULL]
    ELSE IF c = CH_COMPILER_ERROR /\ err # NULL
        THEN [value |-> Err(CompileErrorV(h)), owns |-> TRUE]
    ELSE [value |-> Err(ErrorFrom(c)), owns |-> err # NULL]

\* impl AsCompileResult for ffi::ch_error_t: fn ok_or.  value is what it
\* returns; owns tells whether CompileError::from_ptr(err) was evaluated,
\* making h the owner of the record at err
AsCompileResult_ok_or(c, err, h) ==
    IF c = CH_SUCCESS THEN [value |-> Ok, owns |-> FALSE]
    ELSE IF c = CH_COMPILER_ERROR /\ err # NULL
        THEN [value |-> Err(CompileErrorV(h)), owns |-> TRUE]
    ELSE [value |-> Err(ErrorFrom(c)), owns |-> FALSE]

\* n as usize, for a C int n: sign extension to 64 bits, so the low word
\* keeps the bits of n and the high word is all zeros or all ones
AsUsize(n) == [lo |-> n, hi |-> IF n < 0 THEN -1 ELSE 0]

None == Value("None", "", 0, 0, "")
Some(u) == [Value("Some", "", u.lo, 0, "") EXCEPT !.hi = u.hi]

\* expression with the comparison off by one
expression_ZeroAbsent(n) ==
    IF n <= 0 THEN None ELSE Some(AsUsize(n))

\* CompileError::expression on the record's expression field
expression(n) ==
    IF n < 0 THEN None ELSE Some(AsUsize(n))

\* equality by the content of the records
CompileError_eq_ByContent(a, b) ==
    /\ heap[handles[a].ptr].message = heap[handles[b].ptr].message
    /\ heap[handles[a].ptr].expression = heap[handles[b].ptr].expression

\* impl PartialEq for CompileError: as_ptr() == as_ptr()
CompileError_eq(a, b) == handles[a].ptr = handles[b].ptr

\* #[derive(PartialEq)] on Error: same variant and equal payloads
Error_eq(x, y) ==
    /\ x.variant = y.variant
    /\ x.variant = "Code" => x.num = y.num
    /\ x.variant = "CompileError" => CompileError_eq(x.handle, y.handle)

Bool(b) == Value(IF b THEN "True" ELSE "False", "", 0, 0, "")
Str(m) == Value("Str", "", 0, 0, m)

(***************************************************************************)
(* State                                                                   *)
(***************************************************************************)
NoRecord == [status |-> "unallocated", message |-> "", expression |-> 0, frees |-> 0]
Call(op, code, ptr, h, h2, deref) ==
    [op |-> op, code |-> code, ptr |-> ptr, h |-> h, h2 |-> h2, deref |-> deref]
NoCall == Call("none", 0, NULL, 0, 0, NULL)

Init ==
    /\ heap = [p \in Ptrs |-> NoRecord]
    /\ handles = <<>>
    /\ result = Unit
    /\ last = NoCall
    /\ prev = [code |-> 0, result |-> Unit]
    /\ phase = "running"
    /\ uaf = FALSE

\* handles that own the record at p
Owners(p) == {h \in DOMAIN handles : handles[h].ptr = p}
Live == {h \in DOMAIN handles : handles[h].alive}
\* records the engine handed out that no handle has wrapped
Unowned == {p \in Ptrs : heap[p].status = "allocated" /\ Owners(p) = {}}

\* The engine's compile call fails and allocates a diagnostic record with
\* message m and expression index e, at the next free address.
ch_compile_error(m, e) ==
    /\ phase = "running"
    /\ \E p \in Ptrs :
        /\ heap[p].status = "unallocated"
        /\ \A q \in Ptrs : q < p => heap[q].status # "unallocated"
        /\ heap' = [heap EXCEPT ![p] =
                [status |-> "allocated", message |-> m, expression |-> e, frees |-> 0]]
        /\ last' = Call("ch_compile", 0, p, 0, 0, NULL)
    /\ result' = Unit
    /\ UNCHANGED <<handles, prev, phase, uaf>>

\* status.ok()
Translate(c) ==
    /\ phase = "running"
    /\ result' = AsResult_ok(c)
    /\ last' = Call("ok", c, NULL, 0, 0, NULL)
    /\ UNCHANGED <<heap, handles, prev, phase, uaf>>

\* let kept = status.ok(): the caller keeps the translation it just got
Retain ==
    /\ phase = "running"
    /\ last.op = "ok"
    /\ prev' = [code |-> last.code, result |-> result]
    /\ UNCHANGED <<heap, handles, result, last, phase, uaf>>

\* status.ok_or(err): err is null or a record of the engine that no handle
\* owns yet; from_ptr wraps err in a new owning handle
OkOr(c, err) ==
    /\ phase = "running"
    /\ LET h == Len(handles) + 1
           r == AsCompileResult_ok_or(c, err, h)
       IN /\ result' = r.value
          /\ handles' = IF r.owns
                           THEN Append(handles, [ptr |-> err, alive |-> TRUE])
                           ELSE handles
    /\ last' = Call("ok_or", c, err, 0, 0, NULL)
    /\ UNCHANGED <<heap, prev, phase, uaf>>

\* CompileError::message on a record (the engine's messages are UTF-8)
MessageOf(rec) == Str(rec.message)
\* CompileError::expression on a record
ExpressionOf(rec) == expression(rec.expression)

\* CompileError::as_ref, then message or expression: read the record behind
\* a live handle; as_ref unwraps the pointer, so a null one panics
Access(h, op) ==
    /\ phase = "running"
    /\ h \in Live
    /\ LET p == handles[h].ptr
       IN IF p = NULL
          THEN /\ result' = Panic("unwrap")
               /\ phase' = "unwinding"
               /\ last' = Call(op, 0, p, h, 0, NULL)
               /\ uaf' = uaf
          ELSE /\ result' = (IF op = "message" THEN MessageOf(heap[p])
                                               ELSE ExpressionOf(heap[p]))
               /\ phase' = phase
               /\ last' = Call(op, 0, p, h, 0, p)
               /\ uaf' = (uaf \/ heap[p].status # "allocated")
    /\ UNCHANGED <<heap, handles, prev>>

Message(h) == Access(h, "message")
Expression(h) == Access(h, "expression")

\* Error::CompileError(a) == Error::CompileError(b), for live handles a, b
Eq(a, b) ==
    /\ phase = "running"
    /\ a \in Live /\ b \in Live
    /\ result' = Bool(Error_eq(CompileErrorV(a), CompileErrorV(b)))
    /\ last' = Call("eq", 0, NULL, a, b, NULL)
    /\ UNCHANGED <<heap, handles, prev, phase, uaf>>

\* the foreign ch_free_compile_error(p) called on the heap: the call is
\* counted; the record is released when released is TRUE
ch_free_compile_error(hp, p, released) ==
    IF p = NULL THEN hp
    ELSE [hp EXCEPT ![p].frees = @ + 1,
                    ![p].status = IF released THEN "freed" ELSE @]

\* free_compile_error, the heap side: the foreign call is made once
free_compile_error(hp, p, released) == ch_free_compile_error(hp, p, released)

\* a handle that stays usable after its drop
Consumed_StillAlive(hs, h) == hs

\* the handle is consumed by its drop
Consumed(hs, h) == [hs EXCEPT ![h].alive = FALSE]

\* Drop of the owning handle h (in normal running or while a panic unwinds):
\* free_compile_error(ptr), whose foreign call reports status st; on success
\* the record is released, otherwise the engine may or may not have released
\* it; expect panics on any status but success, and a panic during
\* unwinding aborts
Drop(h, st, released) ==
    /\ phase \in {"running", "unwinding"}
    /\ h \in Live
    /\ st = CH_SUCCESS => released
    /\ LET p == handles[h].ptr
           r == AsResult_expect(st, "free compile error")
       IN /\ heap' = free_compile_error(heap, p, released)
          /\ uaf' = (uaf \/ (p # NULL /\ heap[p].status # "allocated"))
          /\ result' = r
          /\ phase' = IF r.tag = "Panic"
                         THEN (IF phase = "running" THEN "unwinding" ELSE "aborted")
                         ELSE phase
          /\ last' = Call("drop", st, p, h, 0, p)
    /\ handles' = Consumed(handles, h)
    /\ UNCHANGED prev

Next ==
    \/ \E m \in Messages, e \in Expressions : ch_compile_error(m, e)
    \/ \E c \in Codes : Translate(c)
    \/ \E c \in Codes, err \in {NULL} \cup Unowned : OkOr(c, err)
    \/ \E h \in DOMAIN handles : Message(h)
    \/ \E h \in DOMAIN handles : Expression(h)
    \/ \E a \in DOMAIN handles, b \in DOMAIN handles : Eq(a, b)
    \/ \E h \in DOMAIN handles, st \in FreeStatuses, released \in BOOLEAN : Drop(h, st, released)

Spec == Init /\ [][Next]_vars

\* Two translations in a row, the caller keeping the first.
NextTranslate ==
    \/ \E c \in Codes : Translate(c)
    \/ Retain

SpecTranslate == Init /\ [][NextTranslate]_vars

\* Compile failures over the whole sample of expression indices, each
\* wrapped by ok_or and read through the accessor.
NextExpression ==
    \/ \E m \in Messages, e \in ExpressionSample : ch_compile_error(m, e)
    \/ \E err \in Unowned : OkOr(CH_COMPILER_ERROR, err)
    \/ \E h \in DOMAIN handles : Expression(h)

SpecExpression == Init /\ [][NextExpression]_vars

(***************************************************************************)
(* Properties                                                              *)
(***************************************************************************)
\* the failure codes translate names, with the variant of each
NamedVariant ==
    (CH_INVALID :> "Invalid") @@ (CH_NOMEM :> "NoMem")
        @@ (CH_SCAN_TERMINATED :> "ScanTerminated")
        @@ (CH_DB_VERSION_ERROR :> "DbVersionError")
        @@ (CH_DB_PLATFORM_ERROR :> "DbPlatformError")
        @@ (CH_DB_MODE_ERROR :> "DbModeError")
        @@ (CH_BAD_ALIGN :> "BadAlign") @@ (CH_BAD_ALLOC :> "BadAlloc")
        @@ (CH_SCRATCH_IN_USE :> "ScratchInUse")
        @@ (CH_FAIL_INTERNAL :> "FailInternal")

\* C1: ok() never panics; it returns Ok(()) for the success code, the named
\* variant for each of the ten recognized failure codes, and the unknown-code
\* variant carrying the same raw integer for every other code.
C1_TranslateTable ==
    last.op = "ok" =>
        /\ result.tag \in {"Ok", "Err"}
        /\ result.tag = "Ok" <=> last.code = CH_SUCCESS
        /\ last.code \in DOMAIN NamedVariant =>
                result.variant = NamedVariant[last.code]
        /\ last.code \notin DOMAIN NamedVariant \cup {CH_SUCCESS} =>
                result.variant = "Code" /\ result.num = last.code

\* an unrecognized code at the edge of the C int was translated
C1_Witness ==
    last.op = "ok" /\ last.code = INT_MIN /\ result.variant = "Code"

\* C2: ok_or returns the CompileError variant only for the compiler-error
\* code with a non-null pointer; for every other pair it dereferences nothing
\* and no handle ever wraps a null pointer.
C2_CompileErrorOnlyWithRecord ==
    /\ last.op = "ok_or" =>
        /\ result.variant = "CompileError" =>
                last.code = CH_COMPILER_ERROR /\ last.ptr # NULL
        /\ last.deref = NULL
    /\ \A h \in DOMAIN handles : handles[h].ptr # NULL

\* the compiler-error code came with a record and gave CompileError
C2_Witness ==
    /\ last.op = "ok_or" /\ result.variant = "CompileError"
    /\ last.code = CH_COMPILER_ERROR /\ last.ptr # NULL

\* C3: ok_or given the compiler-error code with a null pointer returns the
\* generic CompilerError variant.
C3_NullDiagnosticGivesCompilerError ==
    (last.op = "ok_or" /\ last.code = CH_COMPILER_ERROR /\ last.ptr = NULL) =>
        result = Err(CompilerError)

\* C4: ok and ok_or both return Err(ScanTerminated) for the scan-terminated
\* code, whatever the pointer, and for no other code.
C4_ScanTerminatedDistinguished ==
    last.op \in {"ok", "ok_or"} =>
        /\ last.code = CH_SCAN_TERMINATED => result = Err(ScanTerminated)
        /\ result.variant = "ScanTerminated" => last.code = CH_SCAN_TERMINATED

\* ok_or saw the scan-terminated code together with a record
C4_Witness ==
    /\ last.op = "ok_or" /\ last.code = CH_SCAN_TERMINATED /\ last.ptr # NULL
    /\ result = Err(ScanTerminated)

\* C5: a record wrapped by ok_or has one owning handle; the foreign release
\* is called on it once, by the drop of that handle, never twice and never
\* before; no accessor reads a released record.
C5_SingleOwnerReleasedOnce ==
    /\ \A p \in Ptrs : Cardinality(Owners(p)) <= 1 /\ heap[p].frees <= 1
    /\ \A h \in DOMAIN handles :
            /\ handles[h].ptr \in Ptrs
            /\ heap[handles[h].ptr].frees = (IF handles[h].alive THEN 0 ELSE 1)
    /\ ~uaf

\* two handles were made, one is dropped and its record released, and the
\* accessor has just read the record of the other
C5_Witness ==
    /\ \E h \in DOMAIN handles :
            ~handles[h].alive /\ heap[handles[h].ptr].status = "freed"
    /\ last.op = "message" /\ last.deref # NULL

\* C6: expression() returns None for every negative expression field and
\* Some(n) with the same n for every n >= 0, zero included.
C6_ExpressionIndex ==
    last.op = "expression" =>
        LET n == heap[last.ptr].expression
        IN /\ n < 0 => result = None
           /\ n >= 0 => result.tag = "Some" /\ result.hi = 0 /\ result.num = n

\* the accessor read an expression field of zero
C6_Witness ==
    /\ last.op = "expression" /\ heap[last.ptr].expression = 0
    /\ result.tag = "Some"

\* C7: two CompileError values are equal exactly when they wrap the same
\* record; distinct records compare unequal even with the same content.
C7_EqualityByIdentity ==
    last.op = "eq" =>
        /\ result.tag \in {"True", "False"}
        /\ result.tag = "True" <=> handles[last.h].ptr = handles[last.h2].ptr
        /\ result.tag = "True" <=> last.h = last.h2

\* two records with the same message and expression were compared
C7_Witness ==
    /\ last.op = "eq" /\ last.h # last.h2 /\ result.tag = "False"
    /\ heap[handles[last.h].ptr].message = heap[handles[last.h2].ptr].message
    /\ heap[handles[last.h].ptr].expression = heap[handles[last.h2].ptr].expression

\* C8: the release never returns a Result; on any status but success it
\* panics (unwinding, or aborting when already unwinding), and on success
\* it returns quietly and leaves the phase as it was.
C8_ReleaseFailureIsFatal ==
    [][last'.op = "drop" =>
        /\ result'.tag \in {"Unit", "Panic"}
        /\ last'.code # CH_SUCCESS =>
                /\ result'.tag = "Panic"
                /\ phase' = (IF phase = "running" THEN "unwinding" ELSE "aborted")
        /\ last'.code = CH_SUCCESS => result' = Unit /\ phase' = phase]_vars

\* the foreign release reported a failure and the drop panicked
C8_Witness ==
    /\ last.op = "drop" /\ last.code # CH_SUCCESS
    /\ result.tag = "Panic" /\ phase = "unwinding"

\* C9: two different non-success codes translate to different errors.
C9_TranslateInjective ==
    (/\ last.op = "ok" /\ prev.result.tag = "Err" /\ result.tag = "Err"
     /\ prev.code # last.code) =>
        prev.result # result

\* two different recognized codes were translated, one kept
C9_Witness ==
    /\ last.op = "ok" /\ prev.code = CH_BAD_ALIGN /\ last.code = CH_BAD_ALLOC
    /\ prev.result.tag = "Err" /\ result.tag = "Err"

\* C10: when ok_or returns Ok or an error other than CompileError, the
\* records and the handles are as before and the result is that of ok() on
\* the same code; a record no handle owns is never released.
C10_NoOwnershipWithoutCompileError ==
    /\ [][(last'.op = "ok_or" /\ result'.variant # "CompileError") =>
            /\ heap' = heap
            /\ handles' = handles
            /\ result' = AsResult_ok(last'.code)]_vars
    /\ [](\A p \in Ptrs : Owners(p) = {} =>
            heap[p].frees = 0 /\ heap[p].status # "freed")

\* a failure other than the compiler error came with a record, which stays
\* allocated and unowned
C10_Witness ==
    /\ last.op = "ok_or" /\ last.ptr # NULL /\ result.tag = "Err"
    /\ result.variant # "CompileError"
    /\ last.ptr \in Unowned

====
